---- MODULE Spec2Model ----
(***************************************************************************)
(* The research graph of ollama_deep_researcher (graph.py): the nodes      *)
(* generate_query, web_research, validate_sources, summarize_sources,      *)
(* reflect_on_summary and finalize_summary, the routing functions          *)
(* route_research and route_validation, and the SummaryState they update.  *)
(* A node returns a dictionary of updates; a key whose field is annotated  *)
(* with operator.add (state.py) is concatenated to the old list, every     *)
(* other key overwrites its field.  seen_urls is updated in place on the   *)
(* state object (graph.py:346, 446).                                       *)
(***************************************************************************)
EXTENDS Integers, Sequences, FiniteSets, TLC

\* ------------------------------------------------------------------ bounds
MaxLoops == 1
MaxRetries == 2
\* web_research is not entered once research_loop_count has reached MaxCount.
MaxCount == 4
\* finalize_summary on its own: citation blocks per state, lines per block,
\* calls on the same state object.
MaxBlocks == 2
MaxLines == 2
MaxCalls == 2
\* Progress events one pipeline run sends to the caller's activity log.
MaxEvents == 3

\* ------------------------------------------------------------ value spaces
URLs == {"X", "Y"}
NoValue == "None"

\* A search backend call either raises or returns a result set; a result
\* set is the ordered sequence of the URLs of its results.
Raised == [err |-> TRUE, results |-> <<>>]
Returned(rs) == [err |-> FALSE, results |-> rs]

SingleOutcomes ==
    {Raised, Returned(<<"X">>), Returned(<<"Y">>), Returned(<<"X", "Y">>)}

\* One outcome per configured provider, in the order of search_apis.
MultiOutcomes ==
    { <<Returned(<<"X">>), Returned(<<"X", "Y">>)>>,
      <<Raised, Returned(<<"Y">>)>>,
      <<Returned(<<>>), Raised>>,
      <<Returned(<<"Y">>), Returned(<<>>)>> }

\* The judgment model either fails (call error, malformed JSON) or returns
\* the evaluated sources and, among them, those scoring at or above
\* min_source_relevance_score.
JudgeFailure == [failed |-> TRUE, sources |-> <<>>, valid |-> {}]
Judged(srcs, ok) == [failed |-> FALSE, sources |-> srcs, valid |-> ok]
RejectAll == Judged(<<"X", "Y">>, {})

JudgeOutcomes ==
    {JudgeFailure, RejectAll, Judged(<<"X", "Y">>, {"X"}),
     Judged(<<"X", "Y">>, {"X", "Y"})}

\* The structured query extractor yields the model's query or the fallback.
QueryOutcomes == {"llm", "fallback"}

Query(b, n) == [base |-> b, academic |-> n]

\* Search text: the formatted blocks of a round, the blocks cut out by the
\* validator, or the "No search results found." sentinel.
Formatted(us) == [kind |-> "formatted", urls |-> us]
Filtered(us) == [kind |-> "filtered", urls |-> us]
NoResultsFound == [kind |-> "sentinel", urls |-> <<>>]

Range(s) == {s[i] : i \in 1..Len(s)}

\* ------------------------------------------------------------------- state
VARIABLES
    pc,                       \* the node about to run, "END" or "failed"
    configurable,             \* the configuration a node resolves
    os_environ,               \* where max_web_research_loops comes from:
                              \* whether the caller's configurable has the
                              \* key, MAX_WEB_RESEARCH_LOOPS of the process
                              \* environment, and the value resolved when
                              \* the run was entered
    search_query,
    web_research_results,
    sources_gathered,
    research_loop_count,
    running_summary,
    validated_sources,
    validation_retry_needed,
    validation_retries,
    validation_failed,
    seen_urls,
    query_history,
    error,                    \* the exception that ended the run, if any
    extractor,                \* one call of the query extractor: its
                              \* arguments and what it gave its caller
    finalizer,                \* a state object finalize_summary is called
                              \* on, and what the calls returned
    task,                     \* the caller's record of one research task
    resolver,                 \* the caller's overrides and the environment
                              \* of one configuration resolution, and the
                              \* values it resolved
    \* history of the run, read by the properties only
    prev,                     \* the node that ran last
    calls,                    \* completed executions per node
    retry_edges,              \* validate_sources -> web_research transitions
    judgment,                 \* the judge's outcome at the last validation
    branch,                   \* the branch validate_sources returned from
    round_text,               \* search text produced by the last web_research
    returned_urls,            \* URLs of every accepted result set so far
    summarised,               \* the text the last summarize_sources read
    round,                    \* the last web_research: the providers'
                              \* outcomes, seen_urls as it started, the
                              \* node it was entered from and the query it
                              \* searched
    sink_calls                \* progress_callback calls of the last step

state == <<search_query, web_research_results, sources_gathered,
           research_loop_count, running_summary, validated_sources,
           validation_retry_needed, validation_retries, validation_failed,
           seen_urls, query_history>>
history == <<prev, calls, retry_edges, judgment, branch, round_text,
             returned_urls, summarised, round, sink_calls>>
\* The functions checked on their own, outside a run.
units == <<extractor, finalizer, resolver, task>>
vars == <<pc, configurable, os_environ, state, error, units, history>>

Nodes == {"generate_query", "web_research", "validate_sources",
          "summarize_sources", "reflect_on_summary", "finalize_summary"}

\* ------------------------------------------------------- pure definitions
\* A field without the operator.add annotation: the update replaces it.
Overwrite(old, update) == update
operator_add(old, update) == old \o update

RECURSIVE Flatten(_)
Flatten(sets) ==
    IF sets = <<>> THEN <<>> ELSE Head(sets) \o Flatten(Tail(sets))

RECURSIVE Unseen(_, _)
Unseen(us, seen) ==
    IF us = <<>> THEN <<>>
    ELSE IF Head(us) \in seen THEN Unseen(Tail(us), seen)
         ELSE <<Head(us)>> \o Unseen(Tail(us), seen \cup {Head(us)})

deduplicate_and_format_sources(result_sets, seen) ==
    Formatted(Unseen(Flatten(result_sets), seen))

format_sources(results) == results

SupportedApis == {"perplexity", "tavily", "duckduckgo", "searxng", "arxiv"}

\* The cut after the first provider that raises (the try around the loop
\* instead of inside it).
RECURSIVE StopAtFirstError(_, _)
StopAtFirstError(apis, outs) ==
    IF apis = <<>> THEN <<>>
    ELSE IF Head(apis) \notin SupportedApis
         THEN StopAtFirstError(Tail(apis), Tail(outs))
    ELSE IF Head(outs).err THEN <<>>
    ELSE IF Head(outs).results = <<>>
         THEN StopAtFirstError(Tail(apis), Tail(outs))
    ELSE <<Head(outs).results>> \o StopAtFirstError(Tail(apis), Tail(outs))

\* The result sets a multi-provider round keeps, in the order of
\* search_apis: an unsupported entry is skipped without a search, a
\* provider that raised or returned no result is skipped.
RECURSIVE all_search_results(_, _)
all_search_results(apis, outs) ==
    IF apis = <<>> THEN <<>>
    ELSE IF Head(apis) \notin SupportedApis
            \/ Head(outs).err \/ Head(outs).results = <<>>
         THEN all_search_results(Tail(apis), Tail(outs))
         ELSE <<Head(outs).results>>
              \o all_search_results(Tail(apis), Tail(outs))

\* Each result set formatted on its own, the texts joined.
RECURSIVE FormatEachResultSet(_, _)
FormatEachResultSet(result_sets, seen) ==
    IF result_sets = <<>> THEN Formatted(<<>>)
    ELSE Formatted(Unseen(Head(result_sets), seen)
                   \o FormatEachResultSet(Tail(result_sets), seen).urls)
\* The formatting without the seen_urls argument.
FormatWithoutSeen(result_sets, seen) ==
    deduplicate_and_format_sources(result_sets, {})
\* The search text of a round: one call formats every result set the
\* round kept against seen_urls.
search_str(result_sets, seen) ==
    deduplicate_and_format_sources(result_sets, seen)

\* Citations of the results not seen before only.
CitationsOfUnseen(result_sets, seen) == Unseen(Flatten(result_sets), seen)
\* The citation block of a round: format_sources of every kept result
\* set, joined in order; seen_urls is not consulted.
RECURSIVE formatted_sources(_, _)
formatted_sources(result_sets, seen) ==
    IF result_sets = <<>> THEN <<>>
    ELSE format_sources(Head(result_sets))
         \o formatted_sources(Tail(result_sets), seen)

AddSeenThisRoundOnly(seen, result_sets) == Range(Flatten(result_sets))
add_seen_urls(seen, result_sets) == seen \cup Range(Flatten(result_sets))

IncrementPerResultSet(count, result_sets) == count + Len(result_sets)
next_loop_count(count, result_sets) == count + 1

most_recent_first(results) == results[1]
most_recent(results) == results[Len(results)]

RouteResearchStrict(count, cfg) ==
    IF count < cfg.max_web_research_loops
    THEN "web_research" ELSE "finalize_summary"
route_research(count, cfg) ==
    IF count <= cfg.max_web_research_loops
    THEN "web_research" ELSE "finalize_summary"

RetriesNotCounted(current_retries) == current_retries
retry_count(current_retries) == current_retries + 1

\* The proceed edge drawn to reflect_on_summary.
RouteValidationPastSummary(retry_needed, retries, cfg) ==
    IF retry_needed /\ retries < cfg.max_validation_retries
    THEN "web_research" ELSE "reflect_on_summary"
route_validation(retry_needed, retries, cfg) ==
    IF retry_needed /\ retries < cfg.max_validation_retries
    THEN "web_research" ELSE "summarize_sources"

\* The segments of the accepted sources found in the round's text, in the
\* order the judge listed them.
RECURSIVE filtered_results(_, _, _)
filtered_results(srcs, valid, text) ==
    IF srcs = <<>> THEN <<>>
    ELSE (IF Head(srcs) \in valid /\ Head(srcs) \in Range(text.urls)
          THEN <<Head(srcs)>> ELSE <<>>)
         \o filtered_results(Tail(srcs), valid, text)

RetryWithoutRequire(j, retries, cfg, text) ==
    IF j.failed THEN "error"
    ELSE IF j.valid = {}
         THEN IF retries >= cfg.max_validation_retries
              THEN "exhausted" ELSE "retry"
    ELSE IF Cardinality(j.valid) < Len(j.sources)
            /\ filtered_results(j.sources, j.valid, text) # <<>>
         THEN "filtered"
    ELSE "passed"
\* The retry taken without the test against max_validation_retries.
RetryWithoutLimit(j, retries, cfg, text) ==
    IF j.failed THEN "error"
    ELSE IF j.valid = {} /\ cfg.require_valid_sources THEN "retry"
    ELSE IF j.valid # {} /\ Cardinality(j.valid) < Len(j.sources)
            /\ filtered_results(j.sources, j.valid, text) # <<>>
         THEN "filtered"
    ELSE "passed"
\* The filtered entry written even when no segment was extracted.
FilteredWithoutFallback(j, retries, cfg, text) ==
    IF j.failed THEN "error"
    ELSE IF j.valid = {} /\ cfg.require_valid_sources
         THEN IF retries >= cfg.max_validation_retries
              THEN "exhausted" ELSE "retry"
    ELSE IF j.valid # {} /\ Cardinality(j.valid) < Len(j.sources)
         THEN "filtered"
    ELSE "passed"
\* The return statement validate_sources leaves by.
validation_branch(j, retries, cfg, text) ==
    IF j.failed THEN "error"
    ELSE IF j.valid = {} /\ cfg.require_valid_sources
         THEN IF retries >= cfg.max_validation_retries
              THEN "exhausted" ELSE "retry"
    ELSE IF j.valid # {} /\ Cardinality(j.valid) < Len(j.sources)
            /\ filtered_results(j.sources, j.valid, text) # <<>>
         THEN "filtered"
    ELSE "passed"

\* ------------------------------------------------- the caller's task record
\* research_tasks[task_id] of app.py: start_research creates it, the
\* background thread of run_research_task fills it, get_research_status
\* reads it.  at is the thread's position, response the last answer a
\* poller got.
NoResponse ==
    [status |-> NoValue, activity_log |-> <<>>, result |-> NoValue,
     error |-> NoValue]
NoTask ==
    [status |-> "pending", at |-> "created", logged |-> FALSE,
     activity_log |-> <<>>, error |-> NoValue, result |-> NoValue,
     response |-> NoResponse]

log_activity(t, message) ==
    [t EXCEPT !.activity_log = Append(@, message)]

\* The failure handler forgetting the log.
FailedWithoutLog(t, message) ==
    [t EXCEPT !.status = "failed", !.error = message, !.at = "done",
              !.activity_log = <<>>]
\* except Exception as e: status 'failed', error str(e).
task_failed(t, message) ==
    [t EXCEPT !.status = "failed", !.error = message, !.at = "done"]

ProgressEvents == {"query", "search", "summary"}
ErrorMessages == {"Unsupported search API: bing", "connection refused"}

\* task['result'] read while the key is not there: the request fails.
KeyError ==
    [status |-> "KeyError", activity_log |-> <<>>, result |-> NoValue,
     error |-> "result"]

\* The response of GET /api/research/<task_id>.
get_research_status(t) ==
    IF t.status = "completed" /\ t.result = NoValue THEN KeyError ELSE
    [status |-> t.status,
     activity_log |-> IF t.logged THEN t.activity_log ELSE <<>>,
     result |-> IF t.status = "completed" THEN t.result ELSE NoValue,
     error |-> IF t.status # "failed" THEN NoValue
               ELSE IF t.error = NoValue THEN "Unknown error" ELSE t.error]

\* ------------------------------------------------------ finalize_summary
\* A citation line: "* Title : URL", free text, or whitespace only.
Titled(t, u) == [kind |-> "titled", text |-> "* " \o t \o " : " \o u,
                 title |-> t, url |-> u]
Plain(t) == [kind |-> "plain", text |-> t, title |-> t, url |-> ""]
BlankLine == [kind |-> "blank", text |-> " ", title |-> "", url |-> ""]
CitationLines ==
    {Titled("Cats", "http://x"), Plain("see also the archive"), BlankLine}

\* source.split("\n"): a block is one line or more, the empty block is one
\* empty line.
SeqsUpTo(S, n) == UNION {[1..k -> S] : k \in 0..n}
CitationBlocks == SeqsUpTo(CitationLines, MaxLines) \ {<<>>}

\* line.strip(): falsy for a line of whitespace only.
line_strip(line) == IF line.kind = "blank" THEN "" ELSE line.text

\* "Title : URL" to a markdown link; the bullet is removed from the title
\* and written again.
markdown_link(line) ==
    IF line.kind = "titled"
    THEN "* [" \o line.title \o "](" \o line.url \o ")"
    ELSE line.text

\* "\n".join(lines)
RECURSIVE join(_)
join(lines) ==
    IF lines = <<>> THEN ""
    ELSE IF Len(lines) = 1 THEN lines[1]
    ELSE lines[1] \o "\n" \o join(Tail(lines))

\* The loop over the lines of one block after the other, with the
\* seen_sources set it fills.
RECURSIVE unique_lines(_, _)
unique_lines(lines, seen_sources) ==
    IF lines = <<>> THEN <<>>
    ELSE IF line_strip(Head(lines)) # "" /\ Head(lines) \notin seen_sources
         THEN <<markdown_link(Head(lines))>>
              \o unique_lines(Tail(lines), seen_sources \cup {Head(lines)})
         ELSE unique_lines(Tail(lines), seen_sources)

\* Deduplication inside each block only.
RECURSIVE UniquePerBlock(_)
UniquePerBlock(blocks) ==
    IF blocks = <<>> THEN <<>>
    ELSE unique_lines(Head(blocks), {}) \o UniquePerBlock(Tail(blocks))
unique_sources(blocks) == unique_lines(Flatten(blocks), {})

\* The text finalize_summary builds from state.sources_gathered and
\* state.running_summary.
final_report(blocks, summary) ==
    "## Summary\n" \o summary \o "\n\n### Sources:\n"
        \o join(unique_sources(blocks))

NoFinalize == [sources_gathered |-> <<>>, running_summary |-> "",
               given |-> "", outputs |-> <<>>]

\* ---------------------------------------------------- the query extractor
\* generate_search_query_with_structured_output, called by generate_query
\* and reflect_on_summary with the response of the query model.
Topics == {"cats", "dogs"}
Fields == {"query", "follow_up_query", "rationale"}
FieldValues == {"cat food", ""}

\* An argument map or JSON object: some of the fields, each with a value.
Objects == UNION {[D -> FieldValues] : D \in SUBSET Fields}

\* result.tool_calls: empty, or one tool call, with or without "args".
NoArgs == [has_args |-> FALSE, args |-> <<>>]
ToolCall(a) == [has_args |-> TRUE, args |-> a]
ToolCalls == {<<>>, <<NoArgs>>} \cup {<<ToolCall(a)>> : a \in Objects}

\* result.content: an optional <think>...</think> prefix, then text that
\* is no JSON, or the JSON text of a number, a list or an object.
Text(t) == [type |-> t, fields |-> <<>>]
ObjectText(o) == [type |-> "object", fields |-> o]
Bodies == {Text("prose"), Text("number"), Text("list")}
            \cup {ObjectText(o) : o \in Objects}
Contents == [think : BOOLEAN, body : Bodies]

\* json.loads: the parsed value, or JSONDecodeError.
JSONDecodeError == Text("JSONDecodeError")
json_loads(content) ==
    IF content.think \/ content.body.type = "prose"
    THEN JSONDecodeError ELSE content.body

strip_thinking_tokens(content) == [content EXCEPT !.think = FALSE]

\* dict.get(key): the value, or None.
get(d, key) == IF key \in DOMAIN d THEN d[key] ELSE NoValue

ReturnedQuery(q) == [kind |-> "returned", search_query |-> q]
RaisedError(e) == [kind |-> "raised", search_query |-> e]

\* The tool-calling branch without its "no tool call" test.
FirstToolCallArgs(tool_calls, fallback_query, tool_query_field) ==
    IF tool_calls = <<>> \/ ~tool_calls[1].has_args
    THEN ReturnedQuery(NoValue)
    ELSE ReturnedQuery(get(tool_calls[1].args, tool_query_field))
tool_calling_query(tool_calls, fallback_query, tool_query_field) ==
    IF tool_calls = <<>> THEN ReturnedQuery(fallback_query)
    ELSE IF ~tool_calls[1].has_args               \* KeyError, caught
         THEN ReturnedQuery(fallback_query)
         ELSE ReturnedQuery(get(tool_calls[1].args, tool_query_field))

\* The JSON branch parsing the stripped text again after a parse failure.
JsonModeReparses(content, strip, fallback_query, json_query_field) ==
    LET text == IF strip THEN strip_thinking_tokens(content) ELSE content
        parsed == json_loads(text)
    IN  IF parsed.type # "object"
           \/ get(parsed.fields, json_query_field) \in {NoValue, ""}
        THEN ReturnedQuery(fallback_query)
        ELSE ReturnedQuery(get(parsed.fields, json_query_field))
json_mode_query(content, strip, fallback_query, json_query_field) ==
    LET parsed == json_loads(content)
    IN  IF parsed = JSONDecodeError
        THEN ReturnedQuery(fallback_query)        \* stripped, not re-parsed
        ELSE IF parsed.type # "object"            \* no .get: not caught
        THEN RaisedError("AttributeError")
        ELSE IF get(parsed.fields, json_query_field) \in {NoValue, ""}
        THEN ReturnedQuery(fallback_query)
        ELSE ReturnedQuery(get(parsed.fields, json_query_field))

generate_search_query_with_structured_output(c) ==
    IF c.use_tool_calling
    THEN tool_calling_query(c.tool_calls, c.fallback_query, c.query_field)
    ELSE json_mode_query(c.content, c.strip_thinking_tokens,
                         c.fallback_query, c.query_field)

\* The arguments generate_query and reflect_on_summary call it with.
fallback_query(topic) == "Tell me more about " \o topic
query_field(node) ==
    IF node = "generate_query" THEN "query" ELSE "follow_up_query"
NoContent == [think |-> FALSE, body |-> Text("prose")]
Call(node, topic, tool, strip, tool_calls, content) ==
    [node |-> node, research_topic |-> topic,
     fallback_query |-> fallback_query(topic),
     query_field |-> query_field(node),
     use_tool_calling |-> tool, strip_thinking_tokens |-> strip,
     tool_calls |-> tool_calls, content |-> content]
ExtractorCalls ==
    {Call(n, t, TRUE, st, tc, NoContent) :
        n \in {"generate_query", "reflect_on_summary"}, t \in Topics,
        st \in BOOLEAN, tc \in ToolCalls}
    \cup
    {Call(n, t, FALSE, st, <<>>, co) :
        n \in {"generate_query", "reflect_on_summary"}, t \in Topics,
        st \in BOOLEAN, co \in Contents}
NotCalled == [kind |-> "pending", search_query |-> NoValue]
NoCall == [call |-> Call("generate_query", "cats", FALSE, TRUE, <<>>, NoContent),
           result |-> NotCalled]

\* ---------------------------------------------------------------- initial
SearchApis == {<<"duckduckgo", "arxiv">>, <<"bing", "arxiv">>}

\* search_apis = <<>> is single-provider mode, which searches search_api.
Placeholder == "your_model_name"
PlaceholderMessage ==
    "LOCAL_LLM is set to placeholder value 'your_model_name'. Please configure a real model name."

Configurations ==
    [max_web_research_loops : 0..MaxLoops,
     max_validation_retries : 0..MaxRetries,
     require_valid_sources : BOOLEAN,
     search_apis : {<<>>},
     search_api : {"duckduckgo", "bing"},
     local_llm : {"llama3.2"}]
    \cup
    [max_web_research_loops : 0..MaxLoops,
     max_validation_retries : 0..MaxRetries,
     require_valid_sources : BOOLEAN,
     search_apis : SearchApis,
     search_api : {"tavily"},
     local_llm : {"llama3.2"}]
    \cup
    [max_web_research_loops : {0},
     max_validation_retries : {0},
     require_valid_sources : {FALSE},
     search_apis : {<<>>},
     search_api : {"duckduckgo", "bing"},
     local_llm : {Placeholder}]

NoError == [kind |-> NoValue, names |-> NoValue]

\* The validation of the resolved values in
\* Configuration.from_runnable_config, which every node calls first: the
\* placeholder model name is refused, then the Literal type of search_api
\* rejects a value outside the supported set.
AcceptAnySelector(cfg) == NoError
ValidateFieldsOnly(cfg) ==
    IF cfg.search_api \in SupportedApis THEN NoError
    ELSE [kind |-> "ValidationError", names |-> cfg.search_api]
from_runnable_config(cfg) ==
    IF cfg.local_llm = Placeholder
    THEN [kind |-> "ValueError", names |-> PlaceholderMessage]
    ELSE IF cfg.search_api \in SupportedApis THEN NoError
    ELSE [kind |-> "ValidationError", names |-> cfg.search_api]

\* The resolution of one field: the caller's entry if the key is there,
\* else the environment variable (None when unset); None and "" are
\* dropped, and a dropped field takes the default.
Missing == "<missing>"
raw_value(override, env) ==
    IF override # Missing THEN override
    ELSE IF env = Missing THEN NoValue ELSE env
value_or_default(raw, default) ==
    IF raw \in {NoValue, ""} THEN default ELSE raw
resolved_values(overrides, environ) ==
    [local_llm |->
        value_or_default(raw_value(overrides.local_llm, environ.LOCAL_LLM),
                         "llama3.2"),
     search_api |->
        value_or_default(raw_value(overrides.search_api, environ.SEARCH_API),
                         "tavily")]

Overrides ==
    [local_llm : {Missing, NoValue, "", "gpt-oss:20b", Placeholder},
     search_api : {Missing, NoValue, "", "duckduckgo", "bing"}]
Environments ==
    [LOCAL_LLM : {Missing, "", "mistral", Placeholder},
     SEARCH_API : {Missing, "", "searxng"}]
Unresolved == [local_llm |-> NoValue, search_api |-> NoValue]
NoResolution ==
    [overrides |-> [local_llm |-> Missing, search_api |-> Missing],
     environ |-> [LOCAL_LLM |-> Missing, SEARCH_API |-> Missing],
     called |-> FALSE, values |-> Unresolved]

\* The progress_callback calls of one completed web_research: multi mode
\* announces the aggregation, each provider's search and its outcome (or
\* the skipped entry), then the aggregate; single mode announces the search.
RECURSIVE provider_events(_)
provider_events(apis) ==
    IF apis = <<>> THEN 0
    ELSE (IF Head(apis) \in SupportedApis THEN 2 ELSE 1)
         + provider_events(Tail(apis))
web_research_events(cfg) ==
    IF cfg.search_apis # <<>>
    THEN 1 + provider_events(cfg.search_apis) + 1
    ELSE 1

\* SummaryState as the graph's entry builds it.
InitialState ==
    /\ pc = "generate_query"
    /\ search_query = Query(NoValue, 0)
    /\ web_research_results = <<>>
    /\ sources_gathered = <<>>
    /\ research_loop_count = 0
    /\ running_summary = NoValue
    /\ validated_sources = FALSE
    /\ validation_retry_needed = FALSE
    /\ validation_retries = 0
    /\ validation_failed = FALSE
    /\ seen_urls = {}
    /\ query_history = <<>>
    /\ error = NoError
    /\ prev = "START"
    /\ calls = [n \in Nodes |-> 0]
    /\ retry_edges = 0
    /\ judgment = JudgeFailure
    /\ branch = NoValue
    /\ round_text = NoResultsFound
    /\ returned_urls = {}
    /\ summarised = NoResultsFound
    /\ round = [outcomes |-> <<>>, seen_before |-> {},
               entered_from |-> "START", query |-> Query(NoValue, 0)]
    /\ sink_calls = 0

\* The caller's configurable has every field, as the dictionary app.py
\* builds from a Configuration object has.
CallerSupplies(cfg) ==
    [supplied |-> TRUE,
     MAX_WEB_RESEARCH_LOOPS |-> cfg.max_web_research_loops,
     entry |-> cfg.max_web_research_loops]
\* The caller's configurable has no max_web_research_loops: the field is
\* read from the environment.
FromEnvironment(cfg) == [CallerSupplies(cfg) EXCEPT !.supplied = FALSE]

Init ==
    /\ configurable \in Configurations
    /\ os_environ = CallerSupplies(configurable)
    /\ extractor = NoCall
    /\ finalizer = NoFinalize
    /\ resolver = NoResolution
    /\ task = NoTask
    /\ InitialState

Ran(node) ==
    /\ prev' = node
    /\ calls' = [calls EXCEPT ![node] = @ + 1]

\* ------------------------------------------------------------------ nodes
generate_query(out) ==
    /\ pc = "generate_query"
    /\ from_runnable_config(configurable) = NoError
    /\ search_query' = Query(out, 0)
    /\ query_history' = operator_add(query_history, <<search_query'>>)
    /\ pc' = "web_research"
    /\ Ran("generate_query")
    /\ sink_calls' = 1
    /\ UNCHANGED <<configurable, os_environ, units, error, web_research_results, sources_gathered,
                   research_loop_count, running_summary, validated_sources,
                   validation_retry_needed, validation_retries,
                   validation_failed, seen_urls, retry_edges, judgment,
                   branch, round_text, returned_urls, summarised, round>>

\* Configuration.from_runnable_config raises in the first node: the run
\* ends there, before any state update.
generate_query_raises ==
    /\ pc = "generate_query"
    /\ from_runnable_config(configurable) # NoError
    /\ error' = from_runnable_config(configurable)
    /\ pc' = "failed"
    /\ prev' = "generate_query"
    /\ sink_calls' = 0
    /\ UNCHANGED <<configurable, os_environ, units, state, calls, retry_edges, judgment, branch,
                   round_text, returned_urls, summarised, round>>

\* The updates of a completed web_research, from the providers' outcomes,
\* the result sets it kept, its search text and its citation block.
WebResearchDone(outs, result_sets, text, citations) ==
    /\ research_loop_count < MaxCount
    /\ round' = [outcomes |-> outs, seen_before |-> seen_urls,
                 entered_from |-> prev, query |-> search_query]
    /\ seen_urls' = add_seen_urls(seen_urls, result_sets)
    /\ sources_gathered' = operator_add(sources_gathered, <<citations>>)
    /\ research_loop_count' = next_loop_count(research_loop_count, result_sets)
    /\ web_research_results' = operator_add(web_research_results, <<text>>)
    /\ round_text' = text
    /\ returned_urls' = returned_urls \cup Range(Flatten(result_sets))
    /\ retry_edges' = IF prev = "validate_sources"
                      THEN retry_edges + 1 ELSE retry_edges
    /\ pc' = "validate_sources"
    /\ Ran("web_research")
    /\ sink_calls' = web_research_events(configurable)
    /\ UNCHANGED <<configurable, os_environ, units, error, search_query, running_summary,
                   validated_sources, validation_retry_needed,
                   validation_retries, validation_failed, query_history,
                   judgment, branch, summarised>>

web_research_multi(outs) ==
    /\ pc = "web_research"
    /\ configurable.search_apis # <<>>
    /\ LET kept == all_search_results(configurable.search_apis, outs)
       IN  IF kept # <<>>
           THEN WebResearchDone(outs, kept, search_str(kept, seen_urls),
                                formatted_sources(kept, seen_urls))
           ELSE WebResearchDone(outs, <<>>, NoResultsFound, <<>>)

web_research_single(out) ==
    /\ pc = "web_research"
    /\ configurable.search_apis = <<>>
    /\ configurable.search_api \in SupportedApis
    /\ ~out.err
    /\ WebResearchDone(<<out>>, <<out.results>>,
                       search_str(<<out.results>>, seen_urls),
                       formatted_sources(<<out.results>>, seen_urls))

\* The failure of the only backend handled like a provider failure of the
\* aggregation loop.
WebResearchSwallowsError ==
    /\ pc = "web_research"
    /\ configurable.search_apis = <<>>
    /\ WebResearchDone(<<Raised>>, <<>>, NoResultsFound, <<>>)

\* The selector is not one the node dispatches on, or the only backend
\* raises: the exception leaves the graph, the node returns no update.
web_research_raises ==
    /\ pc = "web_research"
    /\ configurable.search_apis = <<>>
    /\ configurable.search_api \notin SupportedApis \/ Raised \in SingleOutcomes
    /\ error' = IF configurable.search_api \notin SupportedApis
                THEN [kind |-> "ValueError", names |-> configurable.search_api]
                ELSE [kind |-> "SearchError", names |-> NoValue]
    /\ round' = [outcomes |-> <<Raised>>, seen_before |-> seen_urls,
                 entered_from |-> prev, query |-> search_query]
    /\ pc' = "failed"
    /\ prev' = "web_research"
    /\ sink_calls' = 1
    /\ UNCHANGED <<configurable, os_environ, units, state, calls, retry_edges, judgment, branch,
                   round_text, returned_urls, summarised>>

\* The validator counting its own pass as a research loop.
ValidateAdvancesLoop(j) ==
    /\ pc = "validate_sources"
    /\ Len(web_research_results) > 0
    /\ research_loop_count < MaxCount
    /\ research_loop_count' = research_loop_count + 1
    /\ branch' = "passed"
    /\ judgment' = j
    /\ validated_sources' = TRUE
    /\ pc' = "summarize_sources"
    /\ Ran("validate_sources")
    /\ sink_calls' = 1
    /\ UNCHANGED <<configurable, os_environ, units, error, search_query,
                   web_research_results, sources_gathered, running_summary,
                   validation_retry_needed, validation_retries,
                   validation_failed, seen_urls, query_history, retry_edges,
                   round_text, returned_urls, summarised, round>>
validate_sources(j) ==
    /\ pc = "validate_sources"
    /\ Len(web_research_results) > 0
    /\ LET text == most_recent(web_research_results)
           b == validation_branch(j, validation_retries, configurable, text)
       IN
       /\ branch' = b
       /\ judgment' = j
       /\ validated_sources' =
              CASE b = "error" -> TRUE
                [] b = "exhausted" -> FALSE
                [] b = "retry" -> FALSE
                [] b = "filtered" -> TRUE
                [] OTHER -> (j.valid # {})
       /\ validation_retry_needed' =
              CASE b = "exhausted" -> FALSE
                [] b = "retry" -> TRUE
                [] OTHER -> validation_retry_needed
       /\ validation_retries' =
              IF b = "retry" THEN retry_count(validation_retries)
              ELSE validation_retries
       /\ validation_failed' =
              IF b = "exhausted" THEN FALSE ELSE validation_failed
       /\ search_query' =
              IF b = "retry"
              THEN Query(search_query.base, search_query.academic + 1)
              ELSE search_query
       /\ web_research_results' =
              CASE b = "exhausted" ->
                     operator_add(web_research_results, web_research_results)
                [] b = "filtered" ->
                     operator_add(web_research_results,
                        <<Filtered(filtered_results(j.sources, j.valid, text))>>)
                [] OTHER -> web_research_results
       /\ pc' = route_validation(validation_retry_needed',
                                 validation_retries', configurable)
    /\ Ran("validate_sources")
    /\ sink_calls' = 1
    /\ UNCHANGED <<configurable, os_environ, units, error, sources_gathered, research_loop_count,
                   running_summary, seen_urls, query_history, retry_edges,
                   round_text, returned_urls, summarised, round>>

summarize_sources ==
    /\ pc = "summarize_sources"
    /\ summarised' = most_recent(web_research_results)
    /\ running_summary' = "summary"
    /\ pc' = "reflect_on_summary"
    /\ Ran("summarize_sources")
    /\ sink_calls' = 3
    /\ UNCHANGED <<configurable, os_environ, units, error, search_query, web_research_results,
                   sources_gathered, research_loop_count, validated_sources,
                   validation_retry_needed, validation_retries,
                   validation_failed, seen_urls, query_history, retry_edges,
                   judgment, branch, round_text, returned_urls, round>>

\* The follow-up query recorded in query_history as generate_query's is.
ReflectRecordsQuery(out) ==
    /\ pc = "reflect_on_summary"
    /\ search_query' = Query(IF out = "llm" THEN "follow_up" ELSE out, 0)
    /\ query_history' = operator_add(query_history, <<search_query'>>)
    /\ pc' = route_research(research_loop_count, configurable)
    /\ Ran("reflect_on_summary")
    /\ sink_calls' = 0
    /\ UNCHANGED <<configurable, os_environ, units, error, web_research_results, sources_gathered,
                   research_loop_count, running_summary, validated_sources,
                   validation_retry_needed, validation_retries,
                   validation_failed, seen_urls, retry_edges,
                   judgment, branch, round_text, returned_urls, summarised, round>>

reflect_on_summary(out) ==
    /\ pc = "reflect_on_summary"
    /\ search_query' = Query(IF out = "llm" THEN "follow_up" ELSE out, 0)
    /\ pc' = route_research(research_loop_count, configurable)
    /\ Ran("reflect_on_summary")
    /\ sink_calls' = 0
    /\ UNCHANGED <<configurable, os_environ, units, error, web_research_results, sources_gathered,
                   research_loop_count, running_summary, validated_sources,
                   validation_retry_needed, validation_retries,
                   validation_failed, seen_urls, query_history, retry_edges,
                   judgment, branch, round_text, returned_urls, summarised, round>>

finalize_summary ==
    /\ pc = "finalize_summary"
    /\ running_summary' = "report"
    /\ pc' = "END"
    /\ Ran("finalize_summary")
    /\ sink_calls' = 0
    /\ UNCHANGED <<configurable, os_environ, units, error, search_query, web_research_results,
                   sources_gathered, research_loop_count, validated_sources,
                   validation_retry_needed, validation_retries,
                   validation_failed, seen_urls, query_history, retry_edges,
                   judgment, branch, round_text, returned_urls, summarised, round>>

\* The injected progress_callback raises at the first call a node makes
\* (graph.py:178, 257, 371, 486, 676, 682): no call is guarded, so the
\* exception leaves the node before it returns an update.
\* reflect_on_summary and finalize_summary never call it.
progress_sink_raises ==
    /\ pc \in {"generate_query", "web_research", "validate_sources",
               "summarize_sources"}
    /\ from_runnable_config(configurable) = NoError
    /\ pc = "validate_sources" => Len(web_research_results) > 0
    /\ error' = [kind |-> "ProgressSinkError", names |-> pc]
    /\ pc' = "failed"
    /\ prev' = pc
    /\ sink_calls' = 1
    /\ UNCHANGED <<configurable, os_environ, units, state, calls, retry_edges, judgment,
                   branch, round_text, returned_urls, summarised, round>>

\* ---------------------------------------------------------- specifications
Next ==
    \/ \E out \in QueryOutcomes : generate_query(out)
    \/ generate_query_raises
    \/ \E outs \in MultiOutcomes : web_research_multi(outs)
    \/ \E out \in SingleOutcomes : web_research_single(out)
    \/ web_research_raises
    \/ \E j \in JudgeOutcomes : validate_sources(j)
    \/ summarize_sources
    \/ \E out \in QueryOutcomes : reflect_on_summary(out)
    \/ finalize_summary

Spec == Init /\ [][Next]_vars

\* Runs whose progress sink may raise.
NextSink == Next \/ progress_sink_raises

SinkSpec == Init /\ [][NextSink]_vars

\* Runs whose configuration is accepted and whose external calls all
\* return: the graph runs one node after the other until it reaches END, so
\* a step that is enabled is taken.
InitAccepted == Init /\ from_runnable_config(configurable) = NoError

NextReturn ==
    \/ \E out \in QueryOutcomes : generate_query(out)
    \/ \E outs \in MultiOutcomes : web_research_multi(outs)
    \/ \E out \in SingleOutcomes : web_research_single(out)
    \/ \E j \in JudgeOutcomes : validate_sources(j)
    \/ summarize_sources
    \/ \E out \in QueryOutcomes : reflect_on_summary(out)
    \/ finalize_summary

FairSpec == InitAccepted /\ [][NextReturn]_vars /\ WF_vars(NextReturn)

\* The same runs with a judge that scores every source below the threshold
\* at every validation.
NextReject ==
    \/ \E out \in QueryOutcomes : generate_query(out)
    \/ \E outs \in MultiOutcomes : web_research_multi(outs)
    \/ \E out \in SingleOutcomes : web_research_single(out)
    \/ validate_sources(RejectAll)
    \/ summarize_sources
    \/ \E out \in QueryOutcomes : reflect_on_summary(out)
    \/ finalize_summary

RejectSpec == InitAccepted /\ [][NextReject]_vars /\ WF_vars(NextReject)

\* POST /api/config/update while a run is in progress: it sets
\* MAX_WEB_RESEARCH_LOOPS in the process environment.  Every node and
\* routing function resolves the configuration again when it is called, so
\* a field the caller's configurable does not have takes the new value
\* from then on.
update_config(loops) ==
    /\ pc \in Nodes
    /\ prev # "START"
    /\ os_environ' = [os_environ EXCEPT !.MAX_WEB_RESEARCH_LOOPS = loops]
    /\ configurable' =
          IF os_environ.supplied THEN configurable
          ELSE [configurable EXCEPT !.max_web_research_loops = loops]
    /\ UNCHANGED <<pc, state, error, units, history>>

\* Single-provider runs entered with or without the caller's
\* max_web_research_loops, the environment changing under them.
EnvInit ==
    /\ configurable \in Configurations
    /\ from_runnable_config(configurable) = NoError
    /\ configurable.search_apis = <<>>
    /\ os_environ \in {CallerSupplies(configurable),
                       FromEnvironment(configurable)}
    /\ extractor = NoCall
    /\ finalizer = NoFinalize
    /\ resolver = NoResolution
    /\ task = NoTask
    /\ InitialState

NextEnv ==
    \/ \E out \in QueryOutcomes : generate_query(out)
    \/ \E out \in SingleOutcomes : web_research_single(out)
    \/ \E j \in JudgeOutcomes : validate_sources(j)
    \/ summarize_sources
    \/ \E out \in QueryOutcomes : reflect_on_summary(out)
    \/ finalize_summary
    \/ \E loops \in 0..MaxLoops : update_config(loops)

EnvSpec == EnvInit /\ [][NextEnv]_vars

\* The configuration of the specifications that call one function only.
OneConfiguration ==
    CHOOSE c \in Configurations : from_runnable_config(c) = NoError

\* The query extractor on its own: any call the two nodes can make, with
\* any response of the query model.
ExtractInit ==
    /\ configurable = OneConfiguration
    /\ os_environ = CallerSupplies(configurable)
    /\ extractor \in [call : ExtractorCalls, result : {NotCalled}]
    /\ finalizer = NoFinalize
    /\ resolver = NoResolution
    /\ task = NoTask
    /\ InitialState

extract_query ==
    /\ extractor.result = NotCalled
    /\ extractor' = [extractor EXCEPT
           !.result = generate_search_query_with_structured_output(extractor.call)]
    /\ UNCHANGED <<pc, configurable, os_environ, state, error, finalizer, resolver,
                   task, history>>

ExtractSpec == ExtractInit /\ [][extract_query]_vars

\* finalize_summary on its own: any accumulated citation blocks and
\* running summary, the node called on the same state object again.
FinalizeInit ==
    /\ configurable = OneConfiguration
    /\ os_environ = CallerSupplies(configurable)
    /\ extractor = NoCall
    /\ resolver = NoResolution
    /\ task = NoTask
    /\ \E blocks \in SeqsUpTo(CitationBlocks, MaxBlocks),
          summary \in {"Cats purr.", ""} :
          finalizer = [sources_gathered |-> blocks, running_summary |-> summary,
                       given |-> summary, outputs |-> <<>>]
    /\ InitialState

\* One call: the report is assigned to state.running_summary and returned.
finalize_call ==
    /\ Len(finalizer.outputs) < MaxCalls
    /\ LET report == final_report(finalizer.sources_gathered,
                                  finalizer.running_summary)
       IN  finalizer' = [finalizer EXCEPT
                            !.running_summary = report,
                            !.outputs = Append(@, report)]
    /\ UNCHANGED <<pc, configurable, os_environ, state, error, extractor, resolver,
                   task, history>>

FinalizeSpec == FinalizeInit /\ [][finalize_call]_vars

\* Configuration resolution on its own, as generate_query performs it
\* before anything else: any caller overrides and environment; a refused
\* configuration ends the run there.
ResolveInit ==
    /\ configurable = OneConfiguration
    /\ os_environ = CallerSupplies(configurable)
    /\ extractor = NoCall
    /\ finalizer = NoFinalize
    /\ task = NoTask
    /\ resolver \in [overrides : Overrides, environ : Environments,
                      called : {FALSE}, values : {Unresolved}]
    /\ InitialState

resolve_configuration ==
    /\ pc = "generate_query"
    /\ ~resolver.called
    /\ LET values == resolved_values(resolver.overrides, resolver.environ)
       IN  /\ resolver' = [resolver EXCEPT !.called = TRUE, !.values = values]
           /\ error' = from_runnable_config(values)
           /\ pc' = IF from_runnable_config(values) = NoError
                    THEN pc ELSE "failed"
    /\ UNCHANGED <<configurable, os_environ, state, extractor, finalizer, task,
                   history>>

ResolveSpec == ResolveInit /\ [][resolve_configuration]_vars

\* run_research_task on its own, around a pipeline that sends progress
\* events and then returns a state or raises.
TaskInit ==
    /\ configurable = OneConfiguration
    /\ os_environ = CallerSupplies(configurable)
    /\ extractor = NoCall
    /\ finalizer = NoFinalize
    /\ resolver = NoResolution
    /\ task = NoTask
    /\ InitialState

TaskUnchanged ==
    UNCHANGED <<pc, configurable, os_environ, state, error, extractor, finalizer,
                resolver, history>>

\* status 'running', an empty activity log, the entries logged before and
\* at the start of graph.invoke.
task_starts ==
    /\ task.at = "created"
    /\ task' = log_activity(
                  [task EXCEPT !.status = "running", !.logged = TRUE,
                               !.activity_log = <<>>, !.at = "invoke"],
                  "starting")
    /\ TaskUnchanged

\* A node calls progress_callback.
pipeline_progress(event) ==
    /\ task.at = "invoke"
    /\ Len(task.activity_log) < 1 + MaxEvents
    /\ task' = log_activity(task, event)
    /\ TaskUnchanged

\* graph.invoke raises: the error is logged and re-raised to the outer
\* handler.
pipeline_raises(message) ==
    /\ task.at = "invoke"
    /\ task' = task_failed(log_activity(task, "error in pipeline"), message)
    /\ TaskUnchanged

\* graph.invoke returns: with a running_summary the status is set to
\* 'completed', without one the task is failed.
pipeline_returns(has_summary) ==
    /\ task.at = "invoke"
    /\ task' =
          IF has_summary
          THEN [log_activity(log_activity(task, "complete"), "saving")
                   EXCEPT !.status = "completed", !.at = "store"]
          ELSE [log_activity(task, "complete")
                   EXCEPT !.status = "failed",
                          !.error = "No summary generated", !.at = "done"]
    /\ TaskUnchanged

\* The statement after the status assignment stores the report.
store_result ==
    /\ task.at = "store"
    /\ task' = [task EXCEPT !.result = "report", !.at = "save"]
    /\ TaskUnchanged

\* A status request, served by another thread between any two statements
\* of the worker.
poll ==
    /\ task' = [task EXCEPT !.response = get_research_status(task)]
    /\ TaskUnchanged

\* Writing the report file succeeds, or raises into the outer handler.
save_result(written) ==
    /\ task.at = "save"
    /\ task' = IF written
               THEN [log_activity(task, "research complete")
                        EXCEPT !.at = "done"]
               ELSE task_failed(task, "disk full")
    /\ TaskUnchanged

TaskNext ==
    \/ task_starts
    \/ \E event \in ProgressEvents : pipeline_progress(event)
    \/ \E message \in ErrorMessages : pipeline_raises(message)
    \/ \E has_summary \in BOOLEAN : pipeline_returns(has_summary)
    \/ store_result
    \/ \E written \in BOOLEAN : save_result(written)
    \/ poll

TaskSpec == TaskInit /\ [][TaskNext]_vars

\* ------------------------------------------------------------------ claims

C2_OneRoundWhenMaxIsOne ==
    (/\ pc \in {"finalize_summary", "END"}
     /\ configurable.search_apis = <<>>
     /\ configurable.max_web_research_loops = 1
     /\ retry_edges = 0)
    => /\ calls["web_research"] = 1
       /\ calls["summarize_sources"] = 1
       /\ calls["reflect_on_summary"] = 1

RetrySignalSurvives ==
    [][ /\ (/\ pc = "validate_sources" /\ pc' # pc
            /\ validation_retry_needed
            /\ validation_retries < configurable.max_validation_retries
            /\ branch' \in {"error", "passed", "filtered"})
           => /\ pc' = "web_research"
              /\ validation_retry_needed'
              /\ validation_retries' = validation_retries
        /\ (pc = "web_research" /\ pc' = "validate_sources")
           => /\ validation_retry_needed' = validation_retry_needed
              /\ validation_retries' = validation_retries ]_vars

RetrySignalPending ==
    /\ pc = "validate_sources"
    /\ prev = "web_research"
    /\ retry_edges >= 2
    /\ validation_retry_needed
    /\ validation_retries < configurable.max_validation_retries

\* C4: with a judge that rejects every source at every validation and
\* require_valid_sources set, the run reaches the end of finalize_summary
\* with a report, and takes at most max_validation_retries retry edges.
C4_RejectAllTerminates ==
    /\ configurable.require_valid_sources =>
          <>(pc = "END" /\ running_summary = "report")
    /\ [](retry_edges <= configurable.max_validation_retries)

C4_Witness ==
    /\ pc = "END"
    /\ configurable.require_valid_sources
    /\ retry_edges >= 1
    /\ validation_retries = configurable.max_validation_retries

\* C5: with a judge that rejects every source, require_valid_sources set
\* and max_validation_retries = 1, a finished run has taken the retry edge
\* validate_sources -> web_research exactly once.
C5_ExactlyOneRetry ==
    (/\ pc = "END"
     /\ configurable.require_valid_sources
     /\ configurable.max_validation_retries = 1)
    => retry_edges = 1

\* C6: research_loop_count equals the number of completed web_research
\* executions, in every state of every run.
C6_LoopCountCountsWebResearch ==
    research_loop_count = calls["web_research"]

C6_Witness ==
    /\ configurable.search_apis # <<>>
    /\ research_loop_count >= 3
    /\ retry_edges >= 1
    /\ calls["reflect_on_summary"] >= 1

\* C7: with require_valid_sources = false the step after validate_sources
\* is always summarize_sources; the retry edge is never taken.
C7_NoRetryUnlessRequired ==
    ~configurable.require_valid_sources =>
        /\ retry_edges = 0
        /\ prev = "validate_sources" => pc = "summarize_sources"

C7_Witness ==
    /\ ~configurable.require_valid_sources
    /\ configurable.max_validation_retries >= 1
    /\ prev = "validate_sources"
    /\ judgment = RejectAll

\* C8: when the judgment call fails, validate_sources sets
\* validated_sources and the next node is summarize_sources.
C8_JudgeFailureProceeds ==
    (prev = "validate_sources" /\ judgment.failed)
    => (validated_sources /\ pc = "summarize_sources")

\* C9: when no source passes, valid sources are required and the retry
\* budget is used up, validate_sources signals no retry, the next node is
\* summarize_sources, and the text it reads (the last entry of
\* web_research_results) is the text the last web_research produced.
C9_ExhaustedProceedsUnfiltered ==
    /\ (prev = "validate_sources" /\ branch = "exhausted") =>
          /\ pc = "summarize_sources"
          /\ ~validation_retry_needed
          /\ web_research_results[Len(web_research_results)] = round_text
    /\ (prev = "summarize_sources" /\ branch = "exhausted") =>
          summarised = round_text

C9_Witness ==
    /\ prev = "summarize_sources"
    /\ branch = "exhausted"
    /\ calls["web_research"] >= 2
    /\ summarised # web_research_results[1]

Multi == configurable.search_apis # <<>>
\* The selectors a round searches, in order.
Selectors ==
    IF Multi THEN configurable.search_apis ELSE <<configurable.search_api>>
\* web_research has just completed: validate_sources is entered from it only.
RoundDone == pc = "validate_sources"
Last(s) == s[Len(s)]
NoDuplicates(s) == \A i, j \in 1..Len(s) : i # j => s[i] # s[j]

\* Every URL returned in the round, provider after provider: those of the
\* supported selectors whose search did not raise.
RECURSIVE RoundUrls(_, _)
RoundUrls(apis, outs) ==
    IF apis = <<>> \/ outs = <<>> THEN <<>>
    ELSE (IF Head(apis) \in SupportedApis /\ ~Head(outs).err
          THEN Head(outs).results ELSE <<>>)
         \o RoundUrls(Tail(apis), Tail(outs))

\* C11: after a multi-provider round the round's formatted text holds the
\* block of each distinct URL at most once; when provider 1 returned X and
\* provider 2 returned X and Y and nothing was seen before, the text is the
\* block of X once and the block of Y once.
C11_OverlapFormattedOnce ==
    (RoundDone /\ Multi) =>
        /\ NoDuplicates(round_text.urls)
        /\ Last(web_research_results) = round_text
        /\ ( /\ round.outcomes = <<Returned(<<"X">>), Returned(<<"X", "Y">>)>>
             /\ \A i \in 1..2 : configurable.search_apis[i] \in SupportedApis
             /\ round.seen_before = {} )
           => round_text = Formatted(<<"X", "Y">>)

C11_Witness ==
    /\ RoundDone /\ Multi
    /\ configurable.search_apis = <<"duckduckgo", "arxiv">>
    /\ round.outcomes = <<Returned(<<"X">>), Returned(<<"X", "Y">>)>>
    /\ round.seen_before = {}
    /\ round_text.urls = <<"X", "Y">>

C14_MultiToleratesFailures ==
    /\ [](Multi => pc # "failed")
    /\ [][(pc = "web_research" /\ Multi) =>
            /\ pc' = "validate_sources"
            /\ research_loop_count' = research_loop_count + 1
            /\ Len(sources_gathered') = Len(sources_gathered) + 1
            /\ Len(web_research_results') = Len(web_research_results) + 1
            /\ Last(sources_gathered') = RoundUrls(Selectors, round'.outcomes)
            /\ Last(web_research_results') =
                 IF RoundUrls(Selectors, round'.outcomes) = <<>>
                 THEN NoResultsFound
                 ELSE Formatted(round_text'.urls)]_vars

C14_Witness ==
    /\ RoundDone /\ Multi
    /\ round.outcomes = <<Raised, Returned(<<"Y">>)>>
    /\ Last(sources_gathered) = <<"Y">>
    /\ calls["web_research"] >= 2

C14_WitnessSentinel ==
    /\ RoundDone /\ Multi
    /\ round.outcomes = <<Returned(<<>>), Raised>>
    /\ Last(web_research_results) = NoResultsFound

\* C15: in single-provider mode a web_research step whose backend raises
\* ends the run as failed, leaving research_loop_count, sources_gathered,
\* web_research_results and seen_urls as they were; a failed run takes no
\* further step, so it never reaches finalize_summary.
C15_SingleFailurePropagates ==
    /\ [][(pc = "web_research" /\ ~Multi /\ round'.outcomes = <<Raised>>) =>
            /\ pc' = "failed"
            /\ error' # NoError
            /\ UNCHANGED <<research_loop_count, sources_gathered,
                           web_research_results, seen_urls>>]_vars
    /\ [][pc = "failed" => pc' = "failed"]_vars

C15_Witness ==
    /\ pc = "failed" /\ prev = "web_research"
    /\ ~Multi
    /\ round.outcomes = <<Raised>>
    /\ research_loop_count >= 1
    /\ seen_urls # {}

\* C16 as stated: once web_research has run with a selector outside the
\* supported set, the run has failed with an error naming that selector.
C16_UnsupportedSelectorAborts ==
    (prev = "web_research"
     /\ \E i \in 1..Len(Selectors) : Selectors[i] \notin SupportedApis)
    => /\ pc = "failed"
       /\ error.names \in Range(Selectors) \ SupportedApis

\* C16, amended: an unsupported search_api (with a model name that is
\* accepted) aborts the run with an error naming it when generate_query
\* resolves the configuration, before web_research runs; an unsupported
\* entry of search_apis is skipped and the round completes without an
\* error.
C16_UnsupportedSelectorHandling ==
    /\ (~Multi /\ configurable.search_api \notin SupportedApis
        /\ configurable.local_llm # Placeholder) =>
          /\ pc \in {"generate_query", "failed"}
          /\ pc = "failed" =>
                /\ prev = "generate_query"
                /\ error = [kind |-> "ValidationError",
                            names |-> configurable.search_api]
                /\ research_loop_count = 0
    /\ (Multi /\ prev = "web_research") =>
          /\ pc = "validate_sources"
          /\ error = NoError

C16_Witness ==
    /\ pc = "failed"
    /\ error = [kind |-> "ValidationError", names |-> "bing"]

C16_WitnessSkipped ==
    /\ RoundDone
    /\ configurable.search_apis = <<"bing", "arxiv">>
    /\ round.outcomes = <<Returned(<<"X">>), Returned(<<"X", "Y">>)>>
    /\ Last(sources_gathered) = <<"X", "Y">>

\* --------------------------------------------- claims on the query extractor
Called == extractor.result # NotCalled
TheFallback ==
    ReturnedQuery("Tell me more about " \o extractor.call.research_topic)
\* The field the calling node asks for.
AskedField ==
    IF extractor.call.node = "generate_query" THEN "query"
    ELSE "follow_up_query"
\* The model's output is the JSON text of some value.
ParsesAsJson ==
    /\ ~extractor.call.content.think
    /\ extractor.call.content.body.type \in {"number", "list", "object"}
\* The tool call's argument map or the JSON object has the asked field.
HasField(object) == AskedField \in DOMAIN object

\* C17: in tool-calling mode a response without a tool call gives exactly
\* the fallback "Tell me more about <topic>", for generate_query and for
\* reflect_on_summary.
C17_NoToolCallGivesFallback ==
    (Called /\ extractor.call.use_tool_calling
     /\ extractor.call.tool_calls = <<>>)
    => extractor.result = TheFallback

C17_Witness ==
    /\ Called
    /\ extractor.call.use_tool_calling
    /\ extractor.call.node = "reflect_on_summary"
    /\ extractor.call.tool_calls = <<>>
    /\ extractor.result = ReturnedQuery("Tell me more about dogs")

\* C18: in tool-calling mode a tool call whose argument map lacks the asked
\* field gives the fallback, so the extracted query is never None.
C18_MissingFieldGivesFallback ==
    (Called /\ extractor.call.use_tool_calling) =>
        /\ ( /\ extractor.call.tool_calls # <<>>
             /\ extractor.call.tool_calls[1].has_args
             /\ ~HasField(extractor.call.tool_calls[1].args) )
           => extractor.result = TheFallback
        /\ extractor.result.search_query # NoValue

C19_WitnessValue ==
    /\ Called
    /\ ~extractor.call.use_tool_calling
    /\ extractor.call.node = "reflect_on_summary"
    /\ extractor.result = ReturnedQuery("cat food")

\* C20: the extractor never raises: for a response without a tool call, a
\* tool call without the asked field, text that is no JSON and JSON that
\* is no object, the result is the fallback.
C20_MalformedOutputGivesFallback ==
    Called =>
        /\ extractor.result.kind # "raised"
        /\ (IF extractor.call.use_tool_calling
            THEN \/ extractor.call.tool_calls = <<>>
                 \/ ~extractor.call.tool_calls[1].has_args
                 \/ ~HasField(extractor.call.tool_calls[1].args)
            ELSE \/ ~ParsesAsJson
                 \/ extractor.call.content.body.type # "object")
           => extractor.result = TheFallback

\* ---------------------------------------------- claims on finalize_summary
\* Every line of every citation block, in order.
AllLines == Flatten(finalizer.sources_gathered)
\* The positions of the non-blank lines that no earlier line equals.
FirstOccurrences ==
    {i \in 1..Len(AllLines) :
        /\ AllLines[i].kind # "blank"
        /\ \A j \in 1..(i - 1) : AllLines[j] # AllLines[i]}
Converted(line) ==
    IF line.kind = "titled"
    THEN "* [" \o line.title \o "](" \o line.url \o ")"
    ELSE line.text
ExpectedCitations ==
    [n \in 1..Cardinality(FirstOccurrences) |->
        Converted(AllLines[CHOOSE i \in FirstOccurrences :
            Cardinality({k \in FirstOccurrences : k <= i}) = n])]
RECURSIVE JoinLines(_)
JoinLines(lines) ==
    IF lines = <<>> THEN ""
    ELSE IF Len(lines) = 1 THEN lines[1]
    ELSE JoinLines(SubSeq(lines, 1, Len(lines) - 1))
         \o "\n" \o lines[Len(lines)]

\* C21: the report finalize_summary returns is "## Summary", the running
\* summary, "### Sources:" and the citation list; the list holds each
\* non-blank line of sources_gathered once, deduplicated by exact content
\* across all blocks, in order of first occurrence, a "Title : URL" line as
\* a markdown link and any other line as it is.
C21_ReportFormat ==
    Len(finalizer.outputs) >= 1 =>
        finalizer.outputs[1] =
            "## Summary\n" \o finalizer.given \o "\n\n### Sources:\n"
                \o JoinLines(ExpectedCitations)

C21_Witness ==
    /\ Len(finalizer.outputs) >= 1
    /\ finalizer.sources_gathered =
          << <<Titled("Cats", "http://x"), BlankLine>>,
             <<Plain("see also the archive"), Titled("Cats", "http://x")>> >>
    /\ finalizer.outputs[1] =
          "## Summary\nCats purr.\n\n### Sources:\n* [Cats](http://x)\nsee also the archive"

\* C22: finalize_summary leaves the state it is given as it was, and a
\* second call on the same state returns what the first returned.
C22_FinalizerPure ==
    /\ Len(finalizer.outputs) >= 1 =>
          finalizer.running_summary = finalizer.given
    /\ Len(finalizer.outputs) >= 2 =>
          finalizer.outputs[2] = finalizer.outputs[1]

\* ------------------------------------- claims on configuration resolution
\* A value is supplied: the key or variable is there and is not None or "".
IsSet(x) == x \notin {Missing, NoValue, ""}
Precedence(override, env, default) ==
    IF IsSet(override) THEN override
    ELSE IF IsSet(env) THEN env ELSE default

\* C23: every field resolves to the caller's value when one is supplied,
\* else to the environment's value when one is set, else to the default;
\* so an override that is absent, None or "" gives the environment's value.
C23_OverrideEnvironmentDefault ==
    resolver.called =>
        /\ resolver.values.local_llm =
              Precedence(resolver.overrides.local_llm,
                         resolver.environ.LOCAL_LLM, "llama3.2")
        /\ resolver.values.search_api =
              Precedence(resolver.overrides.search_api,
                         resolver.environ.SEARCH_API, "tavily")

\* C24: when the model identifier the resolution reads is the placeholder,
\* from the caller's override or, without an override, from the
\* environment, the resolution fails with the "placeholder" error; in the
\* run it is generate_query's first call, so it fails with no search or
\* model call made, no progress event sent and no state field changed.
C24_PlaceholderRejected ==
    (resolver.called
     /\ \/ resolver.overrides.local_llm = Placeholder
        \/ /\ resolver.overrides.local_llm = Missing
           /\ resolver.environ.LOCAL_LLM = Placeholder)
    => /\ pc = "failed"
       /\ error = [kind |-> "ValueError", names |-> PlaceholderMessage]
       /\ research_loop_count = 0
       /\ web_research_results = <<>>
       /\ sources_gathered = <<>>
       /\ search_query = Query(NoValue, 0)
       /\ running_summary = NoValue
       /\ seen_urls = {}
       /\ \A n \in Nodes : calls[n] = 0
       /\ sink_calls = 0

C24_Witness ==
    /\ resolver.called
    /\ resolver.overrides.local_llm = Missing
    /\ resolver.environ.LOCAL_LLM = Placeholder
    /\ pc = "failed"

C24_WitnessOverride ==
    /\ resolver.called
    /\ resolver.overrides.local_llm = Placeholder
    /\ resolver.environ.LOCAL_LLM = "mistral"
    /\ error.names = PlaceholderMessage

\* In a run whose configuration holds the placeholder, generate_query
\* raises that error and nothing else ever happens.
PlaceholderEndsRunFirst ==
    configurable.local_llm = Placeholder =>
        /\ pc \in {"generate_query", "failed"}
        /\ pc = "failed" =>
              error = [kind |-> "ValueError", names |-> PlaceholderMessage]
        /\ research_loop_count = 0
        /\ web_research_results = <<>>
        /\ \A n \in Nodes : calls[n] = 0
        /\ sink_calls = 0

\* ------------------------------------------------- claims on progress events
\* C25: every completed execution of a node has called the progress sink
\* at least once.
C25_EveryStepEmits ==
    (prev \in Nodes /\ pc # "failed") => sink_calls >= 1

\* C26: a raising progress sink never ends the run as failed.
C26_SinkFailureTolerated ==
    ~(pc = "failed" /\ error.kind = "ProgressSinkError")

\* ------------------------------------------------ claims on the task record
IsPrefix(s, t) == Len(s) <= Len(t) /\ SubSeq(t, 1, Len(s)) = s

\* C27: when the pipeline raises, the task ends as 'failed' with the
\* error's message, and the status endpoint still returns every
\* activity-log entry recorded before the failure: the log only grows
\* during a run, and a failed task's response carries status 'failed', a
\* non-empty error and the whole log.
C27_FailureKeepsProgress ==
    /\ [](task.status = "failed" =>
            /\ get_research_status(task).status = "failed"
            /\ get_research_status(task).error \notin {NoValue, ""}
            /\ get_research_status(task).activity_log = task.activity_log)
    /\ [][task.logged =>
            IsPrefix(task.activity_log, task'.activity_log)]_vars
    /\ [][(task.at = "invoke" /\ task'.activity_log
                                   = Append(task.activity_log, "error in pipeline"))
            => /\ task'.status = "failed"
               /\ task'.error \in ErrorMessages]_vars

C27_Witness ==
    /\ task.status = "failed"
    /\ task.error = "connection refused"
    /\ get_research_status(task).activity_log =
          <<"starting", "query", "search", "error in pipeline">>

\* ------------------------------------------- claims on the retry counter
\* C28: validation_retries never exceeds max_validation_retries; it only
\* changes in validate_sources, by one, from a value strictly below
\* max_validation_retries.
C28_RetriesWithinCeiling ==
    /\ [](validation_retries <= configurable.max_validation_retries)
    /\ [][validation_retries' # validation_retries =>
            /\ pc = "validate_sources"
            /\ validation_retries < configurable.max_validation_retries
            /\ validation_retries' = validation_retries + 1]_vars

C28_Witness ==
    /\ validation_retries = 2
    /\ configurable.max_validation_retries = 2
    /\ branch = "retry"
    /\ prev = "validate_sources"

C28_WitnessExhausted ==
    /\ validation_retries = configurable.max_validation_retries
    /\ configurable.max_validation_retries = 1
    /\ branch = "exhausted"
    /\ prev = "validate_sources"

\* C29: at the validate_sources step that follows a web_research entered
\* from reflect_on_summary, validation_retries is 0.
C29_RetriesResetPerLoop ==
    (pc = "validate_sources" /\ round.entered_from = "reflect_on_summary")
    => validation_retries = 0

\* C30: after a validate_sources step that found at least one source at or
\* above the threshold, the next node is summarize_sources.
C30_RetryOnlyAfterRejection ==
    (prev = "validate_sources" /\ pc # "failed"
     /\ ~judgment.failed /\ judgment.valid # {})
    => pc = "summarize_sources"

\* ---------------------------------------------- claims on the retry round
AcademicTerms(q) == Query(q.base, q.academic + 1)

\* C31: a validate_sources step that returns the retry update (the query
\* with " academic research scholarly" appended) is followed by
\* web_research, and a web_research entered from such a step searches the
\* query that update wrote.
C31_RetryFeedsNextRound ==
    /\ [][(pc = "validate_sources" /\ prev' = "validate_sources"
           /\ branch' = "retry")
            => /\ search_query' = AcademicTerms(search_query)
               /\ pc' = "web_research"]_vars
    /\ [][(pc = "web_research" /\ prev = "validate_sources"
           /\ branch = "retry" /\ prev' = "web_research")
            => round'.query = search_query]_vars
\* C32: a validate_sources step, whatever branch it returns from, leaves
\* research_loop_count, sources_gathered, seen_urls, running_summary and
\* query_history as they were (research_topic is the run's input, which no
\* node writes).
C32_ValidationFrame ==
    [][(pc = "validate_sources" /\ prev' = "validate_sources")
        => UNCHANGED <<research_loop_count, sources_gathered, seen_urls,
                       running_summary, query_history>>]_vars

C32_Witness ==
    /\ prev = "validate_sources"
    /\ branch = "filtered"
    /\ research_loop_count = 2
    /\ Len(sources_gathered) = 2
    /\ seen_urls = {"X", "Y"}
    /\ running_summary = "summary"
    /\ Len(query_history) = 1
\* -------------------------------------------- claims on the filtered text
\* The accepted sources that occur in the round's text, in the judge's
\* order.
AcceptedSegments(j, text) ==
    SelectSeq(j.sources, LAMBDA u : u \in j.valid /\ u \in Range(text.urls))

PartlyAccepted(j) ==
    ~j.failed /\ j.valid # {} /\ Cardinality(j.valid) < Len(j.sources)

\* C33: when some but not all judged sources pass, the last entry of
\* web_research_results after validate_sources is the segments of the
\* accepted sources cut from the round's text, or, when no segment is
\* found, the round's text itself; summarize_sources reads that entry, and
\* no entry is ever an empty filtered text.
C33_FilteredOrOriginal ==
    /\ [][(pc = "validate_sources" /\ prev' = "validate_sources"
           /\ PartlyAccepted(judgment'))
            => Last(web_research_results') =
                  IF AcceptedSegments(judgment', Last(web_research_results))
                        # <<>>
                  THEN Filtered(AcceptedSegments(judgment',
                                                 Last(web_research_results)))
                  ELSE Last(web_research_results)]_vars
    /\ [][(pc = "summarize_sources" /\ prev' = "summarize_sources")
            => summarised' = Last(web_research_results)]_vars
    /\ [](\A i \in 1..Len(web_research_results) :
             web_research_results[i] # Filtered(<<>>))

C33_Witness ==
    /\ prev = "summarize_sources"
    /\ branch = "filtered"
    /\ round_text = Formatted(<<"X", "Y">>)
    /\ summarised = Filtered(<<"X">>)

\* Extraction found nothing: the round keeps its text.
C33_WitnessFallback ==
    /\ prev = "validate_sources"
    /\ PartlyAccepted(judgment)
    /\ branch = "passed"
    /\ round_text = Formatted(<<"Y">>)
    /\ Last(web_research_results) = round_text
\* --------------------------------------------- claims on the result lists
\* C34: in every step the old sources_gathered is a prefix of the new one,
\* and the old web_research_results is a prefix of the new one.
C34_AppendOnly ==
    [][/\ IsPrefix(sources_gathered, sources_gathered')
       /\ IsPrefix(web_research_results, web_research_results')]_vars

C34_Witness ==
    /\ prev = "validate_sources"
    /\ branch = "exhausted"
    /\ Len(web_research_results) = 4
    /\ Len(sources_gathered) = 2
    /\ web_research_results[1] # web_research_results[2]

\* C35: web_research_results has one entry per completed web_research.
C35_OneEntryPerRound ==
    Len(web_research_results) = research_loop_count
\* ------------------------------------------------ claims on the step order
\* The step executes node n.
Executes(n) == calls'[n] = calls[n] + 1

\* The nodes the graph's edges allow after n.
Successors(n) ==
    CASE n = "generate_query" -> {"web_research"}
      [] n = "web_research" -> {"validate_sources"}
      [] n = "validate_sources" -> {"web_research", "summarize_sources"}
      [] n = "summarize_sources" -> {"reflect_on_summary"}
      [] n = "reflect_on_summary" -> {"web_research", "finalize_summary"}
      [] n = "finalize_summary" -> {"END"}

\* C36: generate_query executes once and before any other node; the node
\* that executes is the one the previous step led to, and it leads to a
\* node the graph's edges allow after it (validate_sources after
\* web_research, web_research or summarize_sources after validate_sources,
\* reflect_on_summary after summarize_sources); finalize_summary executes
\* at most once, nothing executes after it, and summarize_sources and
\* reflect_on_summary have executed before it.
C36_FixedGraph ==
    /\ [](calls["generate_query"] <= 1 /\ calls["finalize_summary"] <= 1)
    /\ []((\E n \in Nodes : calls[n] > 0) => calls["generate_query"] = 1)
    /\ [][\A n \in Nodes :
             Executes(n) => (pc = n /\ pc' \in Successors(n))]_vars
    /\ [](calls["finalize_summary"] = 1 =>
             /\ pc = "END"
             /\ calls["summarize_sources"] >= 1
             /\ calls["reflect_on_summary"] >= 1)
    /\ [][pc # "END"]_vars

C36_Witness ==
    /\ pc = "END"
    /\ calls["generate_query"] = 1
    /\ calls["web_research"] = 3
    /\ calls["validate_sources"] = 3
    /\ retry_edges = 1
    /\ calls["summarize_sources"] = 2
    /\ calls["reflect_on_summary"] = 2
    /\ calls["finalize_summary"] = 1
\* ------------------------------------------------ claims on query_history
\* C38: generate_query leaves its query as the only entry of
\* query_history, and no later step changes query_history: follow-up
\* queries and retry queries are searched but not recorded.
C38_OnlyInitialQueryRecorded ==
    /\ [][Executes("generate_query")
            => query_history' = <<search_query'>>]_vars
    /\ [](calls["generate_query"] = 1 => Len(query_history) = 1)
    /\ [][calls["generate_query"] = 1
            => query_history' = query_history]_vars

C38_Witness ==
    /\ prev = "web_research"
    /\ round.query = Query("follow_up", 1)
    /\ query_history = <<Query("llm", 0)>>
\* ------------------------------------------- claims on the configuration
\* C37: every routing decision after reflect_on_summary is the one the
\* max_web_research_loops resolved at the run's entry gives, and
\* max_validation_retries and require_valid_sources never change during a
\* run, whatever happens to the process environment meanwhile.
C37_ConfigurationFixedAtEntry ==
    /\ [][Executes("reflect_on_summary")
            => pc' = route_research(research_loop_count,
                        [configurable EXCEPT
                            !.max_web_research_loops = os_environ.entry])]_vars
    /\ [][/\ configurable'.max_validation_retries
                = configurable.max_validation_retries
          /\ configurable'.require_valid_sources
                = configurable.require_valid_sources]_vars

\* What does hold: a run whose caller supplies the field is not affected.
SuppliedFieldsFixed ==
    [](os_environ.supplied =>
          configurable.max_web_research_loops = os_environ.entry)
\* --------------------------------------------- claims on the task's status
\* C39: whenever the task's status is 'completed' its result is stored,
\* and no status request fails on a missing result.
C39_CompletedHasResult ==
    /\ task.status = "completed" => task.result # NoValue
    /\ task.response # KeyError

StatusMoves ==
    {<<"pending", "running">>, <<"running", "completed">>,
     <<"running", "failed">>}

\* C40: the status changes only from pending to running and from running
\* to completed or failed, so completed and failed are final.
C40_StatusLifecycle ==
    [][task'.status # task.status
        => <<task.status, task'.status>> \in StatusMoves]_vars
====
